---- MODULE Spec2Model ----
(***************************************************************************)
(* A model of samtag (src/src/main.cpp).                                   *)
(*                                                                         *)
(*   SpecTag    `samtag tag`  : tag_reads, the annotation loop             *)
(*   SpecLoad   `samtag tag`  : load_reads, the edit-set loader            *)
(*   SpecMerge  `samtag stats`: sort + merge of the BED intervals          *)
(*   SpecStats  `samtag stats`: read filter, add_read and the report       *)
(*                                                                         *)
(* Text is modelled as a sequence of one-character strings so that find,   *)
(* substr, stoi/stol and the tag syntax check are computed as the code     *)
(* computes them.  Positions are 0-based as in C++.                        *)
(***************************************************************************)
EXTENDS Integers, Sequences, FiniteSets, TLC

VARIABLES
    \* ---- tag_reads ----
    read_names,             \* ReadNameMap: identifier -> edit directive
    tag,                    \* std::optional<Tag>: the base tag (-t)
    flag,                   \* std::optional<uint16_t>: the base flag (-f)
    tags,                   \* std::vector<Tag>: the per-record accumulator
    set_default_tag_value,  \* bool, decided once before the loop
    rec,                    \* the bam1_t being processed
    marked,                 \* number of matched records so far
    warned,                 \* identifiers a WARN line was logged for
    input,                  \* history: the records sam_read1 returned
    output,                 \* the records sam_write1 has written
    pc,                     \* position of the running command
    \* ---- load_reads ----
    lines,                  \* the lines of the qnames file
    line_i,                 \* i: the number of lines std::getline has returned
    reads,                  \* std::vector<pair<string,string>>
    loaded,                 \* the ReadNameMap load_reads returns
    \* ---- get_nonoverlapping_regions_by_contig ----
    intervals,              \* the intervals of one contig
    bed,                    \* history: the intervals as read from the BED file
    merged1,                \* history: the result of the first sort + merge
    \* ---- samtag_stats ----
    options,                \* StatsOptions
    stats,                  \* TagStats
    tot_reads,              \* records read by the stats loop
    seen,                   \* history: the records the stats loop has read
    last,                   \* history: the last record read, and stats before it
    report                  \* what write(stats, ...) has written

tagVars   == <<read_names, tag, flag, tags, set_default_tag_value, rec, marked,
               warned, input, output>>
loadVars  == <<lines, line_i, reads, loaded>>
mergeVars == <<intervals, bed, merged1>>
statsVars == <<options, stats, tot_reads, seen, last, report>>
vars      == <<tagVars, loadVars, mergeVars, statsVars, pc>>

----------------------------------------------------------------------------
(* Bounds of the model.                                                    *)

MaxRecords   == 2       \* records in the alignment stream
MaxLines     == 3       \* lines in the qnames file
MaxIntervals == 3       \* intervals of one contig in the BED file
MaxCoord     == 3       \* largest BED coordinate
MaxLiteral   == 3       \* characters in a tag value literal

----------------------------------------------------------------------------
(* Text helpers: std::string / std::string_view.                           *)

TAB == "\t"
CR  == "\r"

\* std::string::npos
NPOS == -1

RECURSIVE FindFrom(_, _, _)
FindFrom(s, c, k) ==
    IF k > Len(s) THEN NPOS
    ELSE IF s[k] = c THEN k - 1
    ELSE FindFrom(s, c, k + 1)

\* s.find(c): 0-based position of the first c, or npos
Find(s, c) == FindFrom(s, c, 1)

\* s.substr(pos, n); n = npos takes the rest
SubStr(s, pos, n) ==
    SubSeq(s, pos + 1, IF n = NPOS \/ pos + n > Len(s) THEN Len(s) ELSE pos + n)

Digits == <<"0", "1", "2", "3", "4", "5", "6", "7", "8", "9">>

IsDigit(c) == \E d \in 1..10 : Digits[d] = c

DigitVal(c) == (CHOOSE d \in 1..10 : Digits[d] = c) - 1

IsSpace(c) == c \in {" ", TAB, "\n", CR}

RECURSIVE SkipSpace(_, _)
SkipSpace(s, k) ==
    IF k <= Len(s) /\ IsSpace(s[k]) THEN SkipSpace(s, k + 1) ELSE k

RECURSIVE DigitsEnd(_, _)
DigitsEnd(s, k) ==
    IF k <= Len(s) /\ IsDigit(s[k]) THEN DigitsEnd(s, k + 1) ELSE k

RECURSIVE DigitsVal(_, _, _)
DigitsVal(s, k, e) ==
    IF k >= e THEN 0
    ELSE DigitVal(s[e - 1]) + 10 * DigitsVal(s, k, e - 1)

RECURSIVE Pow10(_)
Pow10(n) == IF n = 0 THEN 1 ELSE 10 * Pow10(n - 1)

SignLen(s, k) == IF k <= Len(s) /\ s[k] \in {"+", "-"} THEN 1 ELSE 0

Sign(s, k) == IF k <= Len(s) /\ s[k] = "-" THEN 0 - 1 ELSE 1

\* the number whose sign is at k0 and whose digits are s[k1 .. k2-1]
IntSpan(s, k0, k1, k2) ==
    [ok |-> k2 > k1, val |-> Sign(s, k0) * DigitsVal(s, k1, k2)]

IntFrom(s, k0, k1) == IntSpan(s, k0, k1, DigitsEnd(s, k1))

IntAt(s, k0) == IntFrom(s, k0, k0 + SignLen(s, k0))

\* std::stoi / std::stol: skip white space, an optional sign, then the longest
\* run of digits; what follows the digits is ignored.  No digit at all throws
\* std::invalid_argument (ok = FALSE).
stol(s) == IntAt(s, SkipSpace(s, 1))

\* end of the fraction that starts at the point at k2, k2 itself without a point
FracEnd(s, k2) ==
    IF k2 <= Len(s) /\ s[k2] = "." THEN DigitsEnd(s, k2 + 1) ELSE k2

FracLen(k2, k3) == IF k3 > k2 THEN k3 - (k2 + 1) ELSE 0

\* sign at k0, integer digits s[k1 .. k2-1], fraction digits s[k2+1 .. k3-1]
FloatSpan(s, k0, k1, k2, k3) ==
    [ok  |-> (k2 - k1) + FracLen(k2, k3) > 0,
     num |-> Sign(s, k0) * (DigitsVal(s, k1, k2) * Pow10(FracLen(k2, k3))
                            + DigitsVal(s, k2 + 1, k3)),
     den |-> Pow10(FracLen(k2, k3))]

FloatInt(s, k0, k1, k2) == FloatSpan(s, k0, k1, k2, FracEnd(s, k2))

FloatFrom(s, k0, k1) == FloatInt(s, k0, k1, DigitsEnd(s, k1))

FloatAt(s, k0) == FloatFrom(s, k0, k0 + SignLen(s, k0))

\* std::stof, decimal notation: sign, digits, an optional point and digits.
\* The value is kept as the rational num / den.
stof(s) == FloatAt(s, SkipSpace(s, 1))

\* width of std::uint16_t
UInt16Mod == 65536

\* static_cast<std::uint16_t>(int)
ToUInt16(n) == n % UInt16Mod

RECURSIVE BitOr(_, _)
\* a | b on unsigned values
BitOr(a, b) ==
    IF a = 0 THEN b
    ELSE IF b = 0 THEN a
    ELSE (IF a % 2 = 1 \/ b % 2 = 1 THEN 1 ELSE 0) + 2 * BitOr(a \div 2, b \div 2)

RECURSIVE BitAnd(_, _)
\* a & b on unsigned values
BitAnd(a, b) ==
    IF a = 0 \/ b = 0 THEN 0
    ELSE (IF a % 2 = 1 /\ b % 2 = 1 THEN 1 ELSE 0) + 2 * BitAnd(a \div 2, b \div 2)

----------------------------------------------------------------------------
(* Tag, Tag::Value and the tag syntax.                                     *)

\* Tag::Value = std::variant<std::string_view, long, float>
StrValue(s)      == [kind |-> "str",   s |-> s,    num |-> 0, den |-> 1]
LongValue(n)     == [kind |-> "long",  s |-> <<>>, num |-> n, den |-> 1]
FloatValue(n, d) == [kind |-> "float", s |-> <<>>, num |-> n, den |-> d]

\* a value-initialised Tag::Value: the empty string_view
NoValue == StrValue(<<>>)

\* return std::stol(...), or in the catch block return value
LongOrText(p, value) == IF p.ok THEN LongValue(p.val) ELSE StrValue(value)

\* return std::stof(...), or in the catch block return value
FloatOrText(p, value) == IF p.ok THEN FloatValue(p.num, p.den) ELSE StrValue(value)

get_tag_value(value) ==
    IF Find(value, ".") = NPOS
    THEN LongOrText(stol(value), value)
    ELSE FloatOrText(stof(value), value)

\* the test of get_tag that ends the run with exit(1)
InvalidTag(t) ==
    Len(t) < 2 \/ Len(t) = 3 \/ (Len(t) > 3 /\ t[3] # ":")

NoTag == [id |-> <<>>, value |-> NoValue]

\* get_tag: ok = FALSE stands for "Invalid tag ..." and exit(1)
get_tag(t) ==
    IF InvalidTag(t)
    THEN [ok |-> FALSE, tag |-> NoTag]
    ELSE [ok  |-> TRUE,
          tag |-> [id    |-> SubStr(t, 0, 2),
                   value |-> IF Len(t) > 3 THEN get_tag_value(SubStr(t, 3, NPOS))
                             ELSE NoValue]]

\* std::optional
None    == [has |-> FALSE, v |-> 0]
Some(x) == [has |-> TRUE, v |-> x]

\* The aux field of a record: tag identifier -> value.
EmptyAux == [x \in {} |-> NoValue]

\* htslib bam_aux_update_int / _float / _str as called by add_tag: the tag is
\* appended when absent, replaced when present with a value of the same class,
\* and left alone (EINVAL, which add_tag ignores) when present with another.
AuxUpdate(aux, id, v) ==
    IF id \in DOMAIN aux /\ aux[id].kind # v.kind
    THEN aux
    ELSE [x \in DOMAIN aux \cup {id} |-> IF x = id THEN v ELSE aux[x]]

add_tag(t, aux) ==
    IF t.value.kind = "str" /\ t.value.s = <<>>
    THEN aux
    ELSE AuxUpdate(aux, t.id, t.value)

RECURSIVE ApplyTags(_, _)
\* for (const auto& t : tags) add_tag(t, rec)
ApplyTags(ts, aux) ==
    IF ts = <<>> THEN aux ELSE ApplyTags(Tail(ts), add_tag(Head(ts), aux))

----------------------------------------------------------------------------
(* tag_reads.                                                              *)

\* the byte a freed temporary may show in place of its own
GARBAGE == "?"

\* The contents a string_view can show after the std::string it views has been
\* destroyed: the characters are still there, or the first n of them have been
\* overwritten (the allocator's free-list links, or a later temporary in the
\* same stack slot, start at the buffer's first byte).
Dangling(s) ==
    { [k \in 1..Len(s) |-> IF k <= n THEN GARBAGE ELSE s[k]] : n \in 0..Len(s) }

\* the directive holds a flag literal: it is not empty and holds a TAB
HasFlagLiteral(edits) == edits # <<>> /\ Find(edits, TAB) # NPOS

\* edits.substr(tags_end + 1)
FlagLiteral(edits) == SubStr(edits, Find(edits, TAB) + 1, NPOS)

\* reads_tags: the whole directive, or, when the directive holds a TAB, a view of
\* the temporary edits.substr(0, tags_end), which is destroyed at the end of the
\* assignment.
ReadsTagsViews(edits) ==
    IF HasFlagLiteral(edits)
    THEN Dangling(SubStr(edits, 0, Find(edits, TAB)))
    ELSE {edits}

\* std::stoi on the flag literal throws std::invalid_argument, which nothing catches
FlagLiteralThrows(edits) ==
    HasFlagLiteral(edits) /\ ~stol(FlagLiteral(edits)).ok

\* (mutant) the flag literal replaces the base flag instead of joining it
OrFlag_Assign(base, f) == Some(f)

\* if (read_flag) *read_flag |= f; else read_flag = f;
OrFlag(base, f) == IF base.has THEN Some(BitOr(base.v, f)) ELSE Some(f)

\* read_flag after the directive's flag literal, if any, has been OR'd in
ReadFlag(base, edits) ==
    IF HasFlagLiteral(edits)
    THEN OrFlag(base, ToUInt16(stol(FlagLiteral(edits)).val))
    ELSE base

\* tags.push_back(get_tag(reads_tags)), g being what get_tag returns
PushTag(ts, g) == [ok |-> g.ok, tags |-> IF g.ok THEN Append(ts, g.tag) ELSE ts]

\* the tag payload goes to the default tag's value or is parsed as a tag of its own
EditTags(ts, sdtv, reads_tags) ==
    IF sdtv
    THEN [ok |-> TRUE, tags |-> [ts EXCEPT ![1].value = get_tag_value(reads_tags)]]
    ELSE PushTag(ts, get_tag(reads_tags))

\* rec->core.flag |= *read_flag
ApplyFlag(f, read_flag) ==
    IF read_flag.has THEN BitOr(f, read_flag.v) ELSE f

\* if (tag) tags.resize(1); else tags.clear();
ResetTags(base, ts) ==
    IF base.has THEN SubSeq(ts, 1, 1) ELSE <<>>

\* set_default_tag_value: the base tag holds an empty string_view
SetDefaultTagValue(base) ==
    base.has /\ base.v.value.kind = "str" /\ base.v.value.s = <<>>

\* the run ends inside the record's edit: rec is not written
Stopped(how, r, ts) == [status |-> how, rec |-> r, tags |-> ts, warn |-> FALSE]

\* From `if (read_flag)` to `++marked`: the flag and the tags are applied, the
\* warning is logged and the accumulator reset.
ApplyEdits(r, base, read_flag, et) ==
    IF ~et.ok
    THEN Stopped("invalid_tag", r, et.tags)
    ELSE [status |-> "write",
          rec    |-> [r EXCEPT !.flag = ApplyFlag(@, read_flag),
                               !.aux  = ApplyTags(et.tags, @)],
          tags   |-> ResetTags(base, et.tags),
          warn   |-> et.tags = <<>> /\ ~read_flag.has]

\* The body of `if (read_itr != std::cend(read_names))` for record r.
EditRecord(r, edits, reads_tags, base, baseflag, ts, sdtv) ==
    IF FlagLiteralThrows(edits)
    THEN Stopped("terminate", r, ts)
    ELSE ApplyEdits(r, base, ReadFlag(baseflag, edits),
                    IF edits # <<>> THEN EditTags(ts, sdtv, reads_tags)
                    ELSE [ok |-> TRUE, tags |-> ts])

\* (mutant) the accumulated tags are applied outside the matched branch
KeepRecord_TagsApplied(r, ts) ==
    [status |-> "write", rec |-> [r EXCEPT !.aux = ApplyTags(ts, @)],
     tags |-> ts, warn |-> FALSE]

\* A record whose identifier is not in read_names goes to sam_write1 as read.
KeepRecord(r, ts) ==
    [status |-> "write", rec |-> r, tags |-> ts, warn |-> FALSE]

\* read_names.find(name) and what follows it, up to sam_write1
ProcessRecord(r, names, reads_tags, base, baseflag, ts, sdtv) ==
    IF r.qname \in DOMAIN names
    THEN EditRecord(r, names[r.qname], reads_tags, base, baseflag, ts, sdtv)
    ELSE KeepRecord(r, ts)

\* ---- the inputs the model draws ----

R1 == <<"r", "1">>
R2 == <<"r", "2">>
QNames == {R1, R2}

ZZ == <<"Z", "Z">>
NM == <<"N", "M">>

\* edit directives: the text after the first TAB of a qnames line
Payloads ==
    { <<>>,
      <<"N", "M", ":", "5">>,
      <<"h", "e", "l", "l", "o">>,
      <<TAB, "1", "6">>,
      <<"N", "M", ":", "5", TAB, "6", "5", "5", "4", "2">>,
      <<TAB, "x">>,
      <<"N">>,
      <<"N", "M">>,
      <<"N", "M", "5">> }

EditSets == UNION { [K -> Payloads] : K \in SUBSET QNames }

\* -t: absent, ZZ (no value), ZZ:7
BaseTagArgs == { <<"Z", "Z">>, <<"Z", "Z", ":", "7">> }
BaseTags == {None} \cup { Some(get_tag(a).tag) : a \in BaseTagArgs }

\* -f: absent or 2
BaseFlags == {None, Some(ToUInt16(stol(<<"2">>).val))}

\* flags of the input records: bits 0 and 2
InFlags == {5}
InAux   == {EmptyAux, [x \in {ZZ} |-> StrValue(<<"o">>)]}
Records == [qname : QNames, flag : InFlags, aux : InAux]

NoRecord == [qname |-> <<>>, flag |-> 0, aux |-> EmptyAux]

\* ---- idle values of the variables of the other commands ----

NoOptions == [tags |-> <<>>, split |-> FALSE,
              require_flags |-> None, exclude_flag |-> None,
              min_mapping_quality |-> None]
NoStats   == [counts |-> EmptyAux, value_counts |-> None, total_reads |-> 0]
NoLast    == [rec |-> [flag |-> 0, qual |-> 0, aux |-> EmptyAux], before |-> NoStats]
NoReport  == [written |-> FALSE, total |-> 0, rows |-> {}, value_rows |-> {}]

TagIdle ==
    /\ read_names = EmptyAux /\ tag = None /\ flag = None /\ tags = <<>>
    /\ set_default_tag_value = FALSE /\ rec = NoRecord /\ marked = 0
    /\ warned = <<>> /\ input = <<>> /\ output = <<>>
LoadIdle  == lines = <<>> /\ line_i = 0 /\ reads = <<>> /\ loaded = EmptyAux
MergeIdle == intervals = <<>> /\ bed = <<>> /\ merged1 = <<>>
StatsIdle ==
    /\ options = NoOptions /\ stats = NoStats /\ tot_reads = 0
    /\ seen = <<>> /\ last = NoLast /\ report = NoReport

\* ---- the loop of tag_reads ----

TagInit ==
    /\ read_names \in EditSets
    /\ tag \in BaseTags
    /\ flag \in BaseFlags
    /\ tags = IF tag.has THEN <<tag.v>> ELSE <<>>
    /\ set_default_tag_value = SetDefaultTagValue(tag)
    /\ rec = NoRecord
    /\ marked = 0
    /\ warned = <<>>
    /\ input = <<>>
    /\ output = <<>>
    /\ pc = "read"
    /\ LoadIdle /\ MergeIdle /\ StatsIdle

\* the state after record r has been processed with result res
TakeRecord(r, res) ==
    /\ input' = Append(input, r)
    /\ rec' = res.rec
    /\ tags' = res.tags
    /\ warned' = IF res.warn THEN Append(warned, r.qname) ELSE warned
    /\ marked' = IF r.qname \in DOMAIN read_names /\ res.status = "write"
                 THEN marked + 1 ELSE marked
    /\ pc' = res.status

\* sam_read1 returns a record; it is looked up and edited (or the run ends in
\* get_tag's exit(1), or in std::terminate on an uncaught exception).
ReadRecord ==
    /\ pc = "read"
    /\ Len(input) < MaxRecords
    /\ \E r \in Records :
         \E reads_tags \in (IF r.qname \in DOMAIN read_names
                            THEN ReadsTagsViews(read_names[r.qname]) ELSE {<<>>}) :
           TakeRecord(r, ProcessRecord(r, read_names, reads_tags, tag, flag, tags,
                                       set_default_tag_value))
    /\ UNCHANGED <<read_names, tag, flag, set_default_tag_value, output>>
    /\ UNCHANGED <<loadVars, mergeVars, statsVars>>

\* sam_write1 succeeds
WriteRecord ==
    /\ pc = "write"
    /\ output' = Append(output, rec)
    /\ pc' = "read"
    /\ UNCHANGED <<read_names, tag, flag, tags, set_default_tag_value, rec,
                   marked, warned, input>>
    /\ UNCHANGED <<loadVars, mergeVars, statsVars>>

\* sam_write1 fails: "Error writing BAM", exit(1)
WriteFails ==
    /\ pc = "write"
    /\ pc' = "write_error"
    /\ UNCHANGED <<tagVars, loadVars, mergeVars, statsVars>>

\* sam_read1 returns a negative value: the loop, and tag_reads, end
EndOfStream ==
    /\ pc = "read"
    /\ pc' = "done"
    /\ UNCHANGED <<tagVars, loadVars, mergeVars, statsVars>>

TagNext == ReadRecord \/ WriteRecord \/ WriteFails \/ EndOfStream

SpecTag == TagInit /\ [][TagNext]_vars

\* ---- tag_reads over tag value literals ----

\* value literals: up to MaxLiteral characters out of a digit, a letter, the
\* decimal point and the minus sign
LiteralChars == {"5", "x", ".", "-"}
Literals == UNION { [1..n -> LiteralChars] : n \in 1..MaxLiteral }

\* the directive that carries the literal: the literal itself when the base tag
\* is ZZ without a value, ZZ:literal when there is no base tag
LiteralDirective(t, lit) == IF t.has THEN lit ELSE <<"Z", "Z", ":">> \o lit

\* tag_reads started with one directive, for r1, that carries a value literal
ValueInit ==
    /\ tag \in {None, Some(get_tag(<<"Z", "Z">>).tag)}
    /\ \E lit \in Literals : read_names = [q \in {R1} |-> LiteralDirective(tag, lit)]
    /\ flag = None
    /\ tags = IF tag.has THEN <<tag.v>> ELSE <<>>
    /\ set_default_tag_value = SetDefaultTagValue(tag)
    /\ rec = NoRecord
    /\ marked = 0
    /\ warned = <<>>
    /\ input = <<>>
    /\ output = <<>>
    /\ pc = "read"
    /\ LoadIdle /\ MergeIdle /\ StatsIdle

SpecValue == ValueInit /\ [][TagNext]_vars

----------------------------------------------------------------------------
(* load_reads.                                                             *)

\* if (line.back() == '\r') line.pop_back();
StripCR(line) ==
    IF line[Len(line)] = CR THEN SubSeq(line, 1, Len(line) - 1) ELSE line

\* the pair emplace_back builds from a line and name_end_pos
SplitAt(line, name_end_pos) ==
    <<SubStr(line, 0, name_end_pos),
      IF name_end_pos # NPOS THEN SubStr(line, name_end_pos + 1, NPOS) ELSE <<>>>>

\* the (name, directive) pair of a non-empty line, its trailing CR removed
ParsedLine(line) == SplitAt(line, Find(line, TAB))

\* Insertion of one pair by the range constructor of std::unordered_map: a key
\* that is already present keeps its value.
Emplace(map, kv) ==
    IF kv[1] \in DOMAIN map
    THEN map
    ELSE [x \in DOMAIN map \cup {kv[1]} |-> IF x = kv[1] THEN kv[2] ELSE map[x]]

RECURSIVE InsertRange(_, _)
\* ReadNameMap {begin(reads), end(reads)}: the pairs are inserted in order
InsertRange(map, pairs) ==
    IF pairs = <<>> THEN map
    ELSE InsertRange(Emplace(map, Head(pairs)), Tail(pairs))

\* the lines of the qnames file the model draws
QLines ==
    { <<"r", "1", TAB, "A">>,
      <<"r", "1", TAB, "B">>,
      <<"r", "1", TAB, "A", CR>>,
      <<"r", "1">>,
      <<"r", "2", TAB, "A", TAB, "4">>,
      <<CR>>,
      <<>> }

QFiles == UNION { [1..n -> QLines] : n \in 0..MaxLines }

LoadInit ==
    /\ lines \in QFiles
    /\ line_i = 0
    /\ reads = <<>>
    /\ loaded = EmptyAux
    /\ pc = "getline"
    /\ TagIdle /\ MergeIdle /\ StatsIdle

\* one turn of the for loop: std::getline returns a line
GetLine ==
    /\ pc = "getline"
    /\ line_i < Len(lines)
    /\ line_i' = line_i + 1
    /\ reads' = IF lines[line_i + 1] # <<>>
                THEN Append(reads, ParsedLine(StripCR(lines[line_i + 1])))
                ELSE reads
    /\ UNCHANGED <<lines, loaded, pc>>
    /\ UNCHANGED <<tagVars, mergeVars, statsVars>>

\* std::getline fails at the end of the file: the map is built and returned
BuildMap ==
    /\ pc = "getline"
    /\ line_i = Len(lines)
    /\ loaded' = InsertRange(EmptyAux, reads)
    /\ pc' = "loaded"
    /\ UNCHANGED <<lines, line_i, reads>>
    /\ UNCHANGED <<tagVars, mergeVars, statsVars>>

LoadNext == GetLine \/ BuildMap

SpecLoad == LoadInit /\ [][LoadNext]_vars

----------------------------------------------------------------------------
(* get_nonoverlapping_regions_by_contig: std::sort and merge.              *)

\* hts_pair_pos_t
Interval(b, e) == [beg |-> b, end |-> e]

\* operator< on hts_pair_pos_t
Less(lhs, rhs) ==
    lhs.beg < rhs.beg \/ (lhs.beg = rhs.beg /\ lhs.end < rhs.end)

RECURSIVE InsertSorted(_, _)
InsertSorted(x, sorted) ==
    IF sorted = <<>> THEN <<x>>
    ELSE IF Less(x, Head(sorted)) THEN <<x>> \o sorted
    ELSE <<Head(sorted)>> \o InsertSorted(x, Tail(sorted))

RECURSIVE Sort(_)
\* std::sort(begin, end): ascending by operator<
Sort(ivs) ==
    IF ivs = <<>> THEN <<>> ELSE InsertSorted(Head(ivs), Sort(Tail(ivs)))

\* result.push_back({overlapped->beg, rightmost->end}) unless the guard of
\* line 420 holds it back
PushRun(result, overlapped, rightmost) ==
    IF result = <<>> \/ result[Len(result)].end # rightmost.end
    THEN Append(result, Interval(overlapped.beg, rightmost.end))
    ELSE result

RECURSIVE MergeFrom_Touching(_, _, _, _, _)
\* (mutant) >= for >: an interval that starts at the run's end opens a new run
MergeFrom_Touching(ivs, k, overlapped, rightmost, result) ==
    IF k > Len(ivs)
    THEN Append(result, Interval(overlapped.beg, rightmost.end))
    ELSE IF ivs[k].beg >= rightmost.end
    THEN MergeFrom_Touching(ivs, k + 1, ivs[k], ivs[k], PushRun(result, overlapped, rightmost))
    ELSE IF ivs[k].end >= rightmost.end
    THEN MergeFrom_Touching(ivs, k + 1, overlapped, ivs[k], result)
    ELSE MergeFrom_Touching(ivs, k + 1, overlapped, rightmost, result)

RECURSIVE MergeFrom_RunStart(_, _, _, _, _)
\* (mutant) the next interval is compared with the end of the run's first
\* interval, not with the rightmost end seen
MergeFrom_RunStart(ivs, k, overlapped, rightmost, result) ==
    IF k > Len(ivs)
    THEN Append(result, Interval(overlapped.beg, rightmost.end))
    ELSE IF ivs[k].beg > overlapped.end
    THEN MergeFrom_RunStart(ivs, k + 1, ivs[k], ivs[k], PushRun(result, overlapped, rightmost))
    ELSE IF ivs[k].end >= rightmost.end
    THEN MergeFrom_RunStart(ivs, k + 1, overlapped, ivs[k], result)
    ELSE MergeFrom_RunStart(ivs, k + 1, overlapped, rightmost, result)

RECURSIVE MergeFrom(_, _, _, _, _)
\* the for loop of merge from position k (current), and the final push_back
MergeFrom(ivs, k, overlapped, rightmost, result) ==
    IF k > Len(ivs)
    THEN Append(result, Interval(overlapped.beg, rightmost.end))
    ELSE IF ivs[k].beg > rightmost.end
    THEN MergeFrom(ivs, k + 1, ivs[k], ivs[k], PushRun(result, overlapped, rightmost))
    ELSE IF ivs[k].end >= rightmost.end
    THEN MergeFrom(ivs, k + 1, overlapped, ivs[k], result)
    ELSE MergeFrom(ivs, k + 1, overlapped, rightmost, result)

\* the sweep of merge over a non-empty list
Sweep(ivs) == MergeFrom(ivs, 1, ivs[1], ivs[1], <<>>)

merge(ivs) == IF ivs = <<>> THEN <<>> ELSE Sweep(ivs)

\* the intervals of one contig, as read_bed_regions_by_contig pushes them
BedIntervals == [beg : 0..MaxCoord, end : 0..MaxCoord]
BedLists == UNION { [1..n -> BedIntervals] : n \in 0..MaxIntervals }

MergeInit ==
    /\ bed \in BedLists
    /\ intervals = bed
    /\ merged1 = <<>>
    /\ pc = "sort"
    /\ TagIdle /\ LoadIdle /\ StatsIdle

\* std::sort(std::begin(intervals), std::end(intervals))
SortIntervals ==
    /\ pc \in {"sort", "sort_again"}
    /\ intervals' = Sort(intervals)
    /\ pc' = IF pc = "sort" THEN "merge" ELSE "merge_again"
    /\ UNCHANGED <<bed, merged1>>
    /\ UNCHANGED <<tagVars, loadVars, statsVars>>

\* intervals = merge(intervals); the result is kept to compare a second pass with
MergeIntervals ==
    /\ pc \in {"merge", "merge_again"}
    /\ intervals' = merge(intervals)
    /\ merged1' = IF pc = "merge" THEN merge(intervals) ELSE merged1
    /\ pc' = IF pc = "merge" THEN "sort_again" ELSE "merged_again"
    /\ UNCHANGED bed
    /\ UNCHANGED <<tagVars, loadVars, statsVars>>

MergeNext == SortIntervals \/ MergeIntervals

SpecMerge == MergeInit /\ [][MergeNext]_vars

----------------------------------------------------------------------------
(* samtag_stats: SearchTag, init_stats, make_read_filter, add_read, write. *)

\* operator== and SearchTagHash on SearchTag read id and value only: the key of
\* a TagCountMap entry is the pair (id, value).
Key(t) == [id |-> t.id, value |-> t.value]

\* parse_search_tag for an argument that passes its validity test
SearchTag(arg) ==
    [id      |-> SubStr(arg, 0, 2),
     value   |-> IF Len(arg) > 3 THEN Some(SubStr(arg, 3, NPOS)) ELSE None,
     pattern |-> IF Len(arg) > 3 THEN Some(SubStr(arg, 3, NPOS)) ELSE None]

\* result.counts.emplace(tag, 0): a key that is present is left alone
EmplaceZero(counts, t) ==
    IF Key(t) \in DOMAIN counts
    THEN counts
    ELSE [k \in DOMAIN counts \cup {Key(t)} |-> IF k = Key(t) THEN 0 ELSE counts[k]]

RECURSIVE EmplaceAll(_, _)
\* for (const auto& tag : options.tags) result.counts.emplace(tag, 0)
EmplaceAll(counts, ts) ==
    IF ts = <<>> THEN counts
    ELSE EmplaceAll(EmplaceZero(counts, Head(ts)), Tail(ts))

init_stats(opts) ==
    [counts       |-> EmplaceAll(EmptyAux, opts.tags),
     value_counts |-> IF opts.split THEN Some(EmptyAux) ELSE None,
     total_reads  |-> 0]

RECURSIVE FirstWithKey(_, _)
\* the SearchTag stored as the key k of counts: the first of options.tags equal to it
FirstWithKey(ts, k) ==
    IF Key(Head(ts)) = k THEN Head(ts) ELSE FirstWithKey(Tail(ts), k)

\* ---- make_read_filter ----

\* the conditions make_read_filter pushes, in order
Conditions(opts) ==
    (IF opts.require_flags.has THEN <<[kind |-> "require", arg |-> opts.require_flags.v]>>
     ELSE <<>>)
    \o (IF opts.exclude_flag.has THEN <<[kind |-> "exclude", arg |-> opts.exclude_flag.v]>>
        ELSE <<>>)
    \o (IF opts.min_mapping_quality.has
        THEN <<[kind |-> "min_mq", arg |-> opts.min_mapping_quality.v]>> ELSE <<>>)

\* (mutant) the required-flags condition holds when any bit of the mask is set
Holds_AnyRequiredBit(c, read) ==
    CASE c.kind = "require" -> BitAnd(read.flag, c.arg) # 0
      [] c.kind = "exclude" -> BitAnd(read.flag, c.arg) = 0
      [] c.kind = "min_mq"  -> read.qual >= c.arg

\* one condition applied to a read
Holds(c, read) ==
    CASE c.kind = "require" -> BitAnd(read.flag, c.arg) = c.arg
      [] c.kind = "exclude" -> BitAnd(read.flag, c.arg) = 0
      [] c.kind = "min_mq"  -> read.qual >= c.arg

\* std::all_of over the conditions
AllOf(cs, read) == \A k \in 1..Len(cs) : Holds(cs[k], read)

\* the predicate make_read_filter returns
read_filter(opts, read) == AllOf(Conditions(opts), read)

\* ---- the regular expressions of the search tags ----

\* text t holds the literal lit at position p (1-based)
OccursAt(t, lit, p) ==
    p + Len(lit) - 1 <= Len(t) /\ \A k \in 1..Len(lit) : t[p + k - 1] = lit[k]

\* the pattern without its leading ^ and trailing $
Literal(pat) ==
    SubSeq(pat, IF pat # <<>> /\ pat[1] = "^" THEN 2 ELSE 1,
                IF pat # <<>> /\ pat[Len(pat)] = "$" THEN Len(pat) - 1 ELSE Len(pat))

\* a match of the literal at p respects the anchors of the pattern
Anchored(t, pat, lit, p) ==
    /\ OccursAt(t, lit, p)
    /\ (pat # <<>> /\ pat[1] = "^") => p = 1
    /\ (pat # <<>> /\ pat[Len(pat)] = "$") => p + Len(lit) - 1 = Len(t)

\* (mutant) std::regex_match: the pattern has to match the whole text
regex_search_Whole(t, pat) ==
    Anchored(t, pat, Literal(pat), 1) /\ Len(Literal(pat)) = Len(t)

\* std::regex_search for patterns made of literal characters, ^ and $
regex_search(t, pat) ==
    \E p \in 1..(Len(t) + 1) : Anchored(t, pat, Literal(pat), p)

\* ---- add_read ----

RECURSIVE NatToString(_)
NatToString(n) ==
    IF n < 10 THEN <<Digits[n + 1]>>
    ELSE NatToString(n \div 10) \o <<Digits[(n % 10) + 1]>>

\* std::to_string on an integer
IntToString(n) == IF n < 0 THEN <<"-">> \o NatToString(0 - n) ELSE NatToString(n)

\* the six digits "%f" prints after the point, for the fraction f / 1000000
SixDigits(f) ==
    SubSeq(NatToString(1000000 + f), 2, 7)

\* std::to_string on a float num / den (den a power of ten up to 10^6)
FloatToString(num, den) ==
    (IF num < 0 THEN <<"-">> ELSE <<>>)
    \o NatToString((IF num < 0 THEN 0 - num ELSE num) \div den)
    \o <<".">>
    \o SixDigits(((IF num < 0 THEN 0 - num ELSE num) % den) * (1000000 \div den))

\* bam_aux2Z: the text of a 'Z' field, NULL for any other type
aux2Z(a) == IF a.type = "Z" THEN Some(a.text) ELSE None

\* the switch of the presence branch: the value as text, "" for an unlisted type
SwitchValue(a) ==
    CASE a.type = "Z" -> a.text
      [] a.type = "i" -> IntToString(a.num)
      [] a.type = "f" -> FloatToString(a.num, a.den)
      [] OTHER        -> <<>>

\* the spec t is counted for a read whose field of that id is a
CountsField(t, a) ==
    IF t.pattern.has
    THEN aux2Z(a).has /\ regex_search(a.text, t.pattern.v)
    ELSE TRUE

\* ++count happens for entry k of counts
Counted(opts, k, read) ==
    k.id \in DOMAIN read.aux /\ CountsField(FirstWithKey(opts.tags, k), read.aux[k.id])

\* valued_tag: the key of the value-specialised entry for the spec and field
ValuedKey(t, a) ==
    [id |-> t.id, value |-> Some(IF t.pattern.has THEN a.text ELSE SwitchValue(a))]

ValuedKeyOf(opts, k, read) == ValuedKey(FirstWithKey(opts.tags, k), read.aux[k.id])

\* counts after the for loop of add_read
NewCounts(opts, counts, read) ==
    [k \in DOMAIN counts |-> IF Counted(opts, k, read) THEN counts[k] + 1 ELSE counts[k]]

\* the keys of counts that are counted for the read and specialise to vk
CountedAs(opts, counts, read, vk) ==
    { k \in DOMAIN counts : Counted(opts, k, read) /\ ValuedKeyOf(opts, k, read) = vk }

\* value_counts after the for loop: ++(*stats.value_counts)[valued_tag] once
\* for every counted entry (operator[] inserts a missing key with count 0)
NewValueCounts(opts, counts, vc, read) ==
    [vk \in DOMAIN vc \cup { ValuedKeyOf(opts, k, read) :
                               k \in { j \in DOMAIN counts : Counted(opts, j, read) } }
       |-> (IF vk \in DOMAIN vc THEN vc[vk] ELSE 0)
           + Cardinality(CountedAs(opts, counts, read, vk))]

\* (mutant) ++stats.total_reads inside `if (p)`: only reads with a counted tag
NewTotal_IfCounted(opts, st, read) ==
    IF \E k \in DOMAIN st.counts : Counted(opts, k, read)
    THEN st.total_reads + 1 ELSE st.total_reads

\* (mutant) ++stats.total_reads left out
NewTotal_Never(opts, st, read) == st.total_reads

\* ++stats.total_reads
NewTotal(opts, st, read) == st.total_reads + 1

add_read(opts, read, st) ==
    [counts       |-> NewCounts(opts, st.counts, read),
     value_counts |-> IF st.value_counts.has
                      THEN Some(NewValueCounts(opts, st.counts, st.value_counts.v, read))
                      ELSE None,
     total_reads  |-> NewTotal(opts, st, read)]

\* ---- write ----

\* (mutant) the fraction column without the test of total_reads
Fraction_AlwaysDivides(count, total) ==
    [zero |-> FALSE, num |-> count, den |-> total]

\* the fraction column: count / total_reads, or the character '0'
Fraction(count, total) ==
    IF total > 0 THEN [zero |-> FALSE, num |-> count, den |-> total]
    ELSE [zero |-> TRUE, num |-> 0, den |-> 1]

\* write_row
Row(k, count, total) ==
    [id |-> k.id, value |-> IF k.value.has THEN k.value.v ELSE <<"*">>,
     count |-> count, fraction |-> Fraction(count, total)]

\* one row per entry of a TagCountMap
Rows(map, total) == { Row(k, map[k], total) : k \in DOMAIN map }

\* write(stats, os, sorted): the total row, the rows of counts and the rows of
\* value_counts.  The order of the rows (the maps' order, or by count) is left out.
write(st) ==
    [written    |-> TRUE,
     total      |-> st.total_reads,
     rows       |-> Rows(st.counts, st.total_reads),
     value_rows |-> IF st.value_counts.has THEN Rows(st.value_counts.v, st.total_reads)
                    ELSE {}]

\* ---- the inputs the model draws ----

CB == <<"C", "B">>

\* -t arguments: CB, CB:^A, CB:G, NM
SearchArgs ==
    { <<"C", "B">>, <<"C", "B", ":", "^", "A">>, <<"C", "B", ":", "G">>, <<"N", "M">> }

SearchTagLists ==
    {<<>>} \cup { <<SearchTag(a)>> : a \in SearchArgs }
           \cup { <<SearchTag(a), SearchTag(b)>> : a, b \in SearchArgs }

\* -f 3, -F 12, -q 30, each given or not
StatsOptionSets ==
    [tags : SearchTagLists, split : BOOLEAN,
     require_flags : {None, Some(3)}, exclude_flag : {None, Some(12)},
     min_mapping_quality : {None, Some(30)}]

ZField(t) == [type |-> "Z", text |-> t, num |-> 0, den |-> 1]
NumField(ty, n, d) == [type |-> ty, text |-> <<>>, num |-> n, den |-> d]

\* aux fields of the reads: none; CB:Z:AG; CB:Z:CA and NM:C:5; CB:f:1.5
StatsAux ==
    { EmptyAux,
      [x \in {CB} |-> ZField(<<"A", "G">>)],
      [x \in {CB, NM} |-> IF x = CB THEN ZField(<<"C", "A">>) ELSE NumField("C", 5, 1)],
      [x \in {CB} |-> NumField("f", 15, 10)] }

\* flags 3 with mapping quality 30, flags 5 with mapping quality 10
StatsReads ==
    { [flag |-> fq[1], qual |-> fq[2], aux |-> a] : fq \in {<<3, 30>>, <<5, 10>>}, a \in StatsAux }

\* ---- the loop of samtag_stats ----

StatsInit ==
    /\ options \in StatsOptionSets
    /\ stats = init_stats(options)
    /\ tot_reads = 0
    /\ seen = <<>>
    /\ last = NoLast
    /\ report = NoReport
    /\ pc = "stats_read"
    /\ TagIdle /\ LoadIdle /\ MergeIdle

\* sam_read1 / sam_itr_next returns a read: it is counted if the filter admits it
NextRead ==
    /\ pc = "stats_read"
    /\ tot_reads < MaxRecords
    /\ \E read \in StatsReads :
         /\ stats' = IF read_filter(options, read) THEN add_read(options, read, stats)
                     ELSE stats
         /\ seen' = Append(seen, read)
         /\ last' = [rec |-> read, before |-> stats]
    /\ tot_reads' = tot_reads + 1
    /\ UNCHANGED <<options, report, pc>>
    /\ UNCHANGED <<tagVars, loadVars, mergeVars>>

\* the stream ends (r = -1): the report is written
WriteReport ==
    /\ pc = "stats_read"
    /\ report' = write(stats)
    /\ pc' = "done"
    /\ UNCHANGED <<options, stats, tot_reads, seen, last>>
    /\ UNCHANGED <<tagVars, loadVars, mergeVars>>

\* the stream fails (r < -1): "Error reading", exit(1), no report
ReadError ==
    /\ pc = "stats_read"
    /\ pc' = "read_error"
    /\ UNCHANGED <<statsVars, tagVars, loadVars, mergeVars>>

StatsNext == NextRead \/ WriteReport \/ ReadError

SpecStats == StatsInit /\ [][StatsNext]_vars

----------------------------------------------------------------------------
(* Claims about tag_reads (SpecTag).                                       *)

Matched(r) == r.qname \in DOMAIN read_names

\* the tag payload of a directive: the text before its TAB, or all of it
TagPayload(d) == IF Find(d, TAB) = NPOS THEN d ELSE SubStr(d, 0, Find(d, TAB))

AllDigits(t) == t # <<>> /\ \A k \in 1..Len(t) : IsDigit(t[k])

\* a directive of the edit-set grammar: [tag-payload][TAB flag-literal], the tag
\* payload being empty, ID or ID:VALUE (any text when it is a default tag's value)
WellFormedDirective(d, anyText) ==
    /\ \/ anyText
       \/ Len(TagPayload(d)) \in {0, 2}
       \/ Len(TagPayload(d)) > 3 /\ TagPayload(d)[3] = ":"
    /\ Find(d, TAB) # NPOS => AllDigits(SubStr(d, Find(d, TAB) + 1, NPOS))

AllWellFormed ==
    \A q \in DOMAIN read_names : WellFormedDirective(read_names[q], set_default_tag_value)

\* bit b of the unsigned value n
Bit(n, b) == (n \div (2 ^ b)) % 2 = 1

\* the flag literal of directive d as an unsigned 16-bit value, 0 without one
Literal16(d) ==
    IF Find(d, TAB) = NPOS THEN 0
    ELSE stol(SubStr(d, Find(d, TAB) + 1, NPOS)).val % (2 ^ 16)

\* C1: every input record is written exactly once and in input order: the
\* records written are always a prefix of the records read, a record is written
\* before the next one is read, and a run over well-formed directives that ends
\* for any reason other than a failed write has written every record it read.
C1_EveryRecordOnceInOrder ==
    /\ Len(output) <= Len(input)
    /\ \A k \in 1..Len(output) : output[k].qname = input[k].qname
    /\ pc = "read" => Len(output) = Len(input)
    /\ (AllWellFormed /\ pc \in {"done", "invalid_tag", "terminate"})
         => Len(output) = Len(input)

\* C2: a record whose identifier is not a key of the edit mapping is written
\* with exactly its input flags and tags, whatever was processed before it.
C2_UnmatchedUnchanged ==
    /\ \A k \in 1..Len(output) : ~Matched(input[k]) => output[k] = input[k]
    /\ (pc = "write" /\ ~Matched(input[Len(input)])) => rec = input[Len(input)]

\* C2 witness: an unmatched record carrying a tag was written unchanged after a
\* matched record that a base tag and a base flag changed.
C2_Witness ==
    /\ Len(output) = 2
    /\ tag.has /\ flag.has
    /\ Matched(input[1]) /\ output[1].aux # input[1].aux /\ output[1].flag # input[1].flag
    /\ ~Matched(input[2]) /\ input[2].aux # EmptyAux /\ output[2] = input[2]

\* the record a flag-only directive d makes of r
FlagOnlyResult(r, d) == [r EXCEPT !.flag = BitOr(@, Literal16(d))]

\* C3: with no base tag and no base flag, a matched record whose directive is
\* only a flag literal (TAB, digits) is written with flags = input flags OR
\* literal and its tags unchanged, and the run goes on.
C3_FlagOnlyDirective ==
    \A k \in 1..Len(input) :
        ( /\ ~tag.has /\ ~flag.has
          /\ Matched(input[k])
          /\ Len(read_names[input[k].qname]) > 1
          /\ Head(read_names[input[k].qname]) = TAB
          /\ AllDigits(Tail(read_names[input[k].qname])) )
        => IF k <= Len(output)
           THEN output[k] = FlagOnlyResult(input[k], read_names[input[k].qname])
           ELSE /\ pc \in {"write", "write_error"}
                /\ rec = FlagOnlyResult(input[k], read_names[input[k].qname])

\* C4: in default-tag mode, after a matched record whose tag payload became the
\* base tag's value, a following matched record whose directive has no tag
\* payload gets no tag written: its tags are its input tags.
C4_DefaultTagReverts ==
    set_default_tag_value =>
        \A k \in 2..Len(output) :
            ( /\ Matched(input[k - 1])
              /\ TagPayload(read_names[input[k - 1].qname]) # <<>>
              /\ Matched(input[k])
              /\ TagPayload(read_names[input[k].qname]) = <<>> )
            => output[k].aux = input[k].aux

\* the bits set in the unsigned 16-bit value n
BitsOf(n) == { b \in 0..15 : Bit(n, b) }

\* the flag bits tag_reads is to give matched record r
ExpectedFlagBits(r) ==
    BitsOf(r.flag) \cup (IF flag.has THEN BitsOf(flag.v) ELSE {})
                   \cup BitsOf(Literal16(read_names[r.qname]))

\* C8: a matched record is written with flags = input flags OR base flag OR its
\* own flag literal taken modulo 2^16, bit for bit; so no input bit is cleared
\* and no other record's literal takes part.  Stated for the record waiting to
\* be written and the record written last: output only ever grows at its end,
\* so every written record is the last one in some state.
C8_FlagsAreOred ==
    /\ (output # <<>> /\ Matched(input[Len(output)])) =>
              /\ output[Len(output)].flag \in 0..65535
              /\ BitsOf(output[Len(output)].flag) = ExpectedFlagBits(input[Len(output)])
    /\ (pc = "write" /\ Matched(input[Len(input)])) =>
              /\ rec.flag \in 0..65535
              /\ BitsOf(rec.flag) = ExpectedFlagBits(input[Len(input)])

\* C8 witness: with a base flag, a record whose literal exceeds 16 bits (65542,
\* that is 6) was written, and after it a matched record without a literal,
\* which shows only the base flag.
C8_Witness ==
    /\ Len(output) = 2
    /\ flag.has
    /\ Matched(input[1]) /\ Matched(input[2])
    /\ Literal16(read_names[input[1].qname]) = 6
    /\ stol(FlagLiteral(read_names[input[1].qname])).val > 65535
    /\ output[1].flag = 7
    /\ Find(read_names[input[2].qname], TAB) = NPOS
    /\ output[2].flag = BitOr(input[2].flag, flag.v)

\* the indices of the records read that have been through the loop body:
\* the records written, and the one waiting for (or failing in) sam_write1
Processed ==
    1..(IF pc \in {"write", "write_error"} THEN Len(input) ELSE Len(output))

\* record k as the loop body left it
Result(k) == IF k <= Len(output) THEN output[k] ELSE rec

\* the identifiers a tag of record k's run could be written under: the base
\* tag's and the one its directive names
WritableIds(k) ==
    (IF tag.has THEN {tag.v.id} ELSE {})
    \cup (IF Len(read_names[input[k].qname]) >= 2
          THEN {SubStr(read_names[input[k].qname], 0, 2)} ELSE {})

\* matched record k got no tag and no flag: there is no base flag and no flag
\* literal, and its tags are as read, none of them under a writable identifier
NothingApplied(k) ==
    /\ Matched(input[k])
    /\ ~flag.has /\ Find(read_names[input[k].qname], TAB) = NPOS
    /\ Result(k) = input[k]
    /\ WritableIds(k) \cap DOMAIN input[k].aux = {}

\* C12: every matched record that got neither a tag nor a flag has a warning
\* logged under its name, and a record that was warned about still goes on to
\* be written (a warning never ends the run).
C12_WarnWhenNothingApplied ==
    /\ \A k \in Processed :
          NothingApplied(k) => \E j \in 1..Len(warned) : warned[j] = input[k].qname
    /\ Cardinality({ k \in Processed : NothingApplied(k) }) <= Len(warned)
    /\ Len(warned) <= Cardinality({ k \in Processed : Matched(input[k]) })

\* C12 witness: with a signal-only base tag and no base flag, a matched record
\* without tags whose directive is empty was written unchanged and no warning
\* was logged.
C12_Witness ==
    /\ tag.has /\ set_default_tag_value /\ ~flag.has
    /\ Len(output) = 1 /\ Matched(input[1])
    /\ read_names[input[1].qname] = <<>>
    /\ input[1].aux = EmptyAux
    /\ output[1] = input[1]
    /\ warned = <<>>

\* a tag payload get_tag has to refuse: one character, three characters, or
\* more than three with something other than ':' at index 2
MalformedPayload(p) ==
    Len(p) = 1 \/ Len(p) = 3 \/ (Len(p) > 3 /\ p[3] # ":")

\* a tag payload of the form ID or ID:VALUE
AcceptablePayload(p) == Len(p) = 2 \/ (Len(p) > 3 /\ p[3] = ":")

\* the flag literal of directive d, if it has one, is a number
FlagLiteralIsNumber(d) ==
    Find(d, TAB) # NPOS => AllDigits(SubStr(d, Find(d, TAB) + 1, NPOS))

\* record k, the last one read, ended the run in get_tag's exit(1) unwritten
RejectedAt(k) == k = Len(input) /\ pc = "invalid_tag" /\ Len(output) = k - 1

\* record k went through the loop body to sam_write1
AcceptedAt(k) == k \in Processed

\* C13 for the directive d of matched record k
PayloadJudged(k, d) ==
    /\ MalformedPayload(TagPayload(d)) => RejectedAt(k)
    /\ AcceptablePayload(TagPayload(d)) => AcceptedAt(k)

\* C13: without a base tag, or with a base tag that has a value, a matched
\* record whose tag payload is malformed ends the run in exit(1) before it is
\* written (so it and everything after it is missing from the output), and one
\* whose tag payload is ID or ID:VALUE goes on to be written.
C13_MalformedPayloadIsFatal ==
    ~set_default_tag_value =>
        \A k \in 1..Len(input) :
            (Matched(input[k]) /\ FlagLiteralIsNumber(read_names[input[k].qname]))
                => PayloadJudged(k, read_names[input[k].qname])

\* the same, for directives that hold no flag literal
PayloadJudgedWithoutFlagLiteral ==
    ~set_default_tag_value =>
        \A k \in 1..Len(input) :
            (Matched(input[k]) /\ Find(read_names[input[k].qname], TAB) = NPOS)
                => PayloadJudged(k, read_names[input[k].qname])

\* C13 witness: the directive NM:5<TAB>65542 of a matched record was refused as
\* an invalid tag, although its tag payload is NM:5.
C13_Witness ==
    /\ ~set_default_tag_value
    /\ pc = "invalid_tag" /\ Len(input) = 1 /\ output = <<>>
    /\ Matched(input[1])
    /\ TagPayload(read_names[input[1].qname]) = <<"N", "M", ":", "5">>

\* the literal is digits only, after an optional minus sign
WholeInteger(lit) ==
    /\ Find(lit, ".") = NPOS
    /\ AllDigits(IF Head(lit) = "-" THEN Tail(lit) ELSE lit)

\* the literal is digits around one decimal point, after an optional minus sign
WholeReal(lit) ==
    /\ Cardinality({ k \in 1..Len(lit) : lit[k] = "." }) = 1
    /\ \E k \in 1..Len(lit) : IsDigit(lit[k])
    /\ \A k \in 1..Len(lit) : IsDigit(lit[k]) \/ lit[k] = "." \/ (lit[k] = "-" /\ k = 1)

\* the value literal of the directive d of a run that began with base tag t
LiteralOf(t, d) == IF t.has THEN d ELSE SubStr(d, 3, NPOS)

\* the value v, stored for literal lit, is of the type the literal denotes
StoredAsDenoted(lit, v) ==
    /\ WholeInteger(lit) => v.kind = "long" /\ IntToString(v.num) = lit
    /\ WholeReal(lit) => v.kind = "float"
    /\ (~WholeInteger(lit) /\ ~WholeReal(lit)) => v = StrValue(lit)

\* C16: the type of a tag value follows its literal: an integer literal without
\* a decimal point is stored as an integer, a real literal with a decimal point
\* as a real, and a literal that is not a number in its entirety (letters, or
\* digits followed by other characters) as the text of the literal unchanged.
\* Stated for the tag ZZ written to a matched record that had no tags.
C16_ValueTypeFollowsLiteral ==
    \A k \in Processed :
        (Matched(input[k]) /\ input[k].aux = EmptyAux /\ ~flag.has
           /\ Find(read_names[input[k].qname], TAB) = NPOS
           /\ Len(LiteralOf(tag, read_names[input[k].qname])) > 0
           /\ (tag.has => set_default_tag_value)
           /\ (~tag.has => SubStr(read_names[input[k].qname], 0, 3) = <<"Z", "Z", ":">>))
        => /\ ZZ \in DOMAIN Result(k).aux
           /\ StoredAsDenoted(LiteralOf(tag, read_names[input[k].qname]), Result(k).aux[ZZ])

\* the literal begins with a number that is followed by something else
NumberThenMore(lit) ==
    /\ ~WholeInteger(lit) /\ ~WholeReal(lit)
    /\ IF Find(lit, ".") = NPOS THEN stol(lit).ok ELSE stof(lit).ok

\* the same as C16, leaving out the literals that begin with a number and go on
ValueTypeFollowsLiteralUnlessPrefix ==
    \A k \in Processed :
        (Matched(input[k]) /\ input[k].aux = EmptyAux /\ ~flag.has
           /\ Find(read_names[input[k].qname], TAB) = NPOS
           /\ Len(LiteralOf(tag, read_names[input[k].qname])) > 0
           /\ (tag.has => set_default_tag_value)
           /\ (~tag.has => SubStr(read_names[input[k].qname], 0, 3) = <<"Z", "Z", ":">>)
           /\ ~NumberThenMore(LiteralOf(tag, read_names[input[k].qname])))
        => /\ ZZ \in DOMAIN Result(k).aux
           /\ StoredAsDenoted(LiteralOf(tag, read_names[input[k].qname]), Result(k).aux[ZZ])

\* C16 witness: the literal 5x (a digit followed by a letter) was given for ZZ,
\* and the record was written with ZZ as the integer 5.
C16_Witness ==
    /\ Len(output) = 1 /\ Matched(input[1]) /\ input[1].aux = EmptyAux
    /\ LiteralOf(tag, read_names[input[1].qname]) = <<"5", "x">>
    /\ output[1].aux = [x \in {ZZ} |-> LongValue(5)]

----------------------------------------------------------------------------
(* Claims about load_reads (SpecLoad).                                     *)

\* the identifier of line k of the qnames file: the text before its first TAB,
\* a trailing CR not counted
LineName(k) ==
    LET l == IF lines[k][Len(lines[k])] = CR
             THEN SubSeq(lines[k], 1, Len(lines[k]) - 1) ELSE lines[k]
    IN  IF \E p \in 1..Len(l) : l[p] = TAB
        THEN SubSeq(l, 1, (CHOOSE p \in 1..Len(l) : l[p] = TAB /\ \A q \in 1..(p - 1) : l[q] # TAB) - 1)
        ELSE l

\* the directive of line k: the text after its first TAB, a trailing CR not counted
LinePayload(k) ==
    LET l == IF lines[k][Len(lines[k])] = CR
             THEN SubSeq(lines[k], 1, Len(lines[k]) - 1) ELSE lines[k]
    IN  SubSeq(l, Len(LineName(k)) + 2, Len(l))

\* the lines that carry identifier q
LinesOf(q) == { k \in 1..Len(lines) : lines[k] # <<>> /\ LineName(k) = q }

Max(S) == CHOOSE x \in S : \A y \in S : y <= x
Min(S) == CHOOSE x \in S : \A y \in S : x <= y

\* C5: the mapping holds, for every identifier, the directive of the last line
\* of the input that carries it (last write wins).
C5_LastWriteWins ==
    pc = "loaded" =>
        \A q \in DOMAIN loaded : loaded[q] = LinePayload(Max(LinesOf(q)))

\* What load_reads does: the mapping's keys are the identifiers of the non-empty
\* lines, and each holds the directive of the first line that carries it.
FirstWriteWins ==
    pc = "loaded" =>
        /\ DOMAIN loaded = { LineName(k) : k \in { j \in 1..Len(lines) : lines[j] # <<>> } }
        /\ \A q \in DOMAIN loaded : loaded[q] = LinePayload(Min(LinesOf(q)))

\* C5 witness: the file held the same identifier on several lines with different
\* directives, and the map was built with the directive of the first of them.
C5_Witness ==
    /\ pc = "loaded"
    /\ \E q \in DOMAIN loaded :
          /\ Cardinality(LinesOf(q)) > 1
          /\ LinePayload(Min(LinesOf(q))) # LinePayload(Max(LinesOf(q)))
          /\ loaded[q] = LinePayload(Min(LinesOf(q)))

----------------------------------------------------------------------------
(* Claims about the interval merge (SpecMerge).                            *)

\* the coordinates the half-open intervals of a list cover
Covered(ivs) == UNION { ivs[k].beg .. (ivs[k].end - 1) : k \in 1..Len(ivs) }

\* every interval of the list has end >= begin
EndsAfterBegins(ivs) == \A k \in 1..Len(ivs) : ivs[k].end >= ivs[k].beg

\* C6: for a list of intervals with end >= begin, sort then merge gives a list
\* that is sorted by (begin, end), whose neighbours satisfy previous.end <
\* next.begin, and that covers exactly the coordinates the input covers.
C6_MergedSortedDisjointSameUnion ==
    (pc = "sort_again" /\ EndsAfterBegins(bed)) =>
        /\ \A k \in 1..(Len(intervals) - 1) :
              /\ intervals[k].beg < intervals[k + 1].beg
                 \/ (intervals[k].beg = intervals[k + 1].beg
                     /\ intervals[k].end <= intervals[k + 1].end)
              /\ intervals[k].end < intervals[k + 1].beg
        /\ Covered(intervals) = Covered(bed)
        /\ EndsAfterBegins(intervals)

\* C6 witness: an unsorted list of three intervals, two of which touch without
\* overlapping, was merged into two intervals.
C6_Witness ==
    /\ pc = "sort_again"
    /\ EndsAfterBegins(bed)
    /\ Len(bed) = 3 /\ Len(intervals) = 2
    /\ bed[1].beg > bed[2].beg
    /\ \E j, k \in 1..3 : bed[j].beg < bed[j].end /\ bed[j].end = bed[k].beg
                         /\ bed[k].beg < bed[k].end
    /\ intervals[1].end < intervals[2].beg

\* C7: merge(sort(merge(sort(L)))) = merge(sort(L)), element for element.
C7_MergeIdempotent ==
    pc = "merged_again" => intervals = merged1

\* C7 witness: a second sort + merge was applied to a first result that differs
\* from the sorted input (three intervals merged into two).
C7_Witness ==
    /\ pc = "merged_again"
    /\ Len(bed) = 3 /\ Len(merged1) = 2
    /\ Covered(merged1) # {}
    /\ intervals = merged1

----------------------------------------------------------------------------
(* Claims about samtag_stats (SpecStats). *)

\* the admission conditions as stated: every bit of the required mask is set,
\* no bit of the excluded mask is set, the quality reaches the threshold
Admitted(opts, r) ==
    /\ opts.require_flags.has =>
          \A b \in 0..15 : Bit(opts.require_flags.v, b) => Bit(r.flag, b)
    /\ opts.exclude_flag.has =>
          \A b \in 0..15 : Bit(opts.exclude_flag.v, b) => ~Bit(r.flag, b)
    /\ opts.min_mapping_quality.has => r.qual >= opts.min_mapping_quality.v

\* the number of records read so far that are admitted
NumAdmitted == Cardinality({ i \in 1..Len(seen) : Admitted(options, seen[i]) })

RECURSIVE SumOf(_, _)
\* the sum of the counts of map over the keys in S
SumOf(map, S) ==
    IF S = {} THEN 0
    ELSE map[CHOOSE k \in S : TRUE] + SumOf(map, S \ {CHOOSE k \in S : TRUE})

\* every key of map a is a key of map b, with a count that is no smaller
NoCountDecreased(a, b) ==
    \A k \in DOMAIN a : k \in DOMAIN b /\ b[k] >= a[k]

\* C9: total_reads is the number of records read so far that the admission
\* conditions admit, whether or not any search tag was present or matched; a
\* rejected record leaves counts, value_counts and total_reads as they were;
\* and the total row of the report shows that number.
C9_TotalIsAdmitted ==
    /\ stats.total_reads = NumAdmitted
    /\ (seen # <<>> /\ ~Admitted(options, last.rec)) => stats = last.before
    /\ report.written => report.total = NumAdmitted

\* C9 witness: with search tags given and --split, an admitted record without
\* any of the tags and then a rejected record that carries one were read, and
\* the report was written with total 1.
C9_Witness ==
    /\ pc = "done" /\ report.written
    /\ options.split /\ DOMAIN stats.counts # {}
    /\ Len(seen) = 2
    /\ Admitted(options, seen[1]) /\ seen[1].aux = EmptyAux
    /\ ~Admitted(options, seen[2]) /\ CB \in DOMAIN seen[2].aux
    /\ \A k \in DOMAIN stats.counts : stats.counts[k] = 0
    /\ report.total = 1

\* C10: the counts of the un-specialized map sum to at most total_reads times
\* the number of distinct search tags, and from one record to the next no
\* count of either map decreases (and no entry disappears).
C10_CountsBoundedAndMonotone ==
    /\ SumOf(stats.counts, DOMAIN stats.counts)
         <= stats.total_reads * Cardinality(DOMAIN stats.counts)
    /\ Cardinality(DOMAIN stats.counts) <= Cardinality({ Key(options.tags[i]) : i \in 1..Len(options.tags) })
    /\ NoCountDecreased(last.before.counts, stats.counts)
    /\ last.before.value_counts.has =>
         /\ stats.value_counts.has
         /\ NoCountDecreased(last.before.value_counts.v, stats.value_counts.v)

\* C10 witness: two distinct search tags, two admitted records, the second of
\* which raised one count and added a value-specialized entry; the counts sum
\* to 3.
C10_Witness ==
    /\ Cardinality(DOMAIN stats.counts) = 2
    /\ stats.total_reads = 2
    /\ SumOf(stats.counts, DOMAIN stats.counts) = 3
    /\ \E k \in DOMAIN stats.counts : stats.counts[k] > last.before.counts[k]
    /\ stats.value_counts.has
    /\ last.before.value_counts.has /\ last.before.value_counts.v # EmptyAux
    /\ \E k \in DOMAIN stats.value_counts.v : k \notin DOMAIN last.before.value_counts.v

\* the pattern (literal characters, optionally ^ in front and $ behind) matches
\* some stretch i..j of the text
MatchesSomewhere(text, pat) ==
    \E i \in 1..(Len(text) + 1) : \E j \in (i - 1)..Len(text) :
        /\ SubSeq(text, i, j) = SelectSeq(pat, LAMBDA c : c \notin {"^", "$"})
        /\ Head(pat) = "^" => i = 1
        /\ pat[Len(pat)] = "$" => j = Len(text)

\* the record carries the tag of key k as text in which k's pattern matches
PatternHit(k, r) ==
    /\ k.id \in DOMAIN r.aux
    /\ r.aux[k.id].type = "Z"
    /\ MatchesSomewhere(r.aux[k.id].text, k.value.v)

\* the count of key k in map, 0 when there is no such entry
CountIn(map, k) == IF k \in DOMAIN map THEN map[k] ELSE 0

\* the key of the value-specialized entry for tag id and value text
ValueEntry(id, text) == [id |-> id, value |-> Some(text)]

\* the keys of counts that were given with a pattern (TAG:VALUE)
PatternKeys == { k \in DOMAIN stats.counts : k.value.has }

\* every search spec of the run was given with a pattern
OnlyPatterns == PatternKeys = DOMAIN stats.counts

\* the last record read was admitted and counted
LastAdmitted == seen # <<>> /\ Admitted(options, last.rec)

\* C11: for a search spec with a pattern, an admitted record raises the spec's
\* count by one exactly when it carries the tag as text in which the pattern
\* matches somewhere, and leaves it alone otherwise; with --split a match also
\* raises the entry (id, value text) of the value-specialized map, and when no
\* pattern spec matches (value absent, not matching or not textual) no
\* value-specialized entry is created or raised.
C11_PatternCounting ==
    LastAdmitted =>
        /\ \A k \in PatternKeys :
             stats.counts[k] = last.before.counts[k]
                                 + (IF PatternHit(k, last.rec) THEN 1 ELSE 0)
        /\ options.split =>
             \A k \in PatternKeys :
                PatternHit(k, last.rec) =>
                    CountIn(stats.value_counts.v, ValueEntry(k.id, last.rec.aux[k.id].text))
                      > CountIn(last.before.value_counts.v,
                                ValueEntry(k.id, last.rec.aux[k.id].text))
        /\ (options.split /\ OnlyPatterns) =>
             \A vk \in DOMAIN stats.value_counts.v :
                \/ CountIn(stats.value_counts.v, vk) = CountIn(last.before.value_counts.v, vk)
                \/ \E k \in PatternKeys :
                      /\ PatternHit(k, last.rec)
                      /\ vk = ValueEntry(k.id, last.rec.aux[k.id].text)

\* C11 witness: with --split and the only spec CB:G, a record with CB:Z:AG (the
\* pattern matches at the end of the value) was counted and got the entry
\* (CB, AG), and then a record with CB:Z:CA was admitted and changed nothing
\* but total_reads.
C11_Witness ==
    /\ options.split /\ OnlyPatterns
    /\ DOMAIN stats.counts = {[id |-> CB, value |-> Some(<<"G">>)]}
    /\ Len(seen) = 2 /\ stats.total_reads = 2
    /\ seen[1].aux = [x \in {CB} |-> ZField(<<"A", "G">>)]
    /\ CB \in DOMAIN seen[2].aux /\ seen[2].aux[CB] = ZField(<<"C", "A">>)
    /\ stats.counts = last.before.counts
    /\ stats.value_counts.v = [vk \in {ValueEntry(CB, <<"A", "G">>)} |-> 1]

\* the rows of the report below the total row
ReportRows == report.rows \cup report.value_rows

\* C14: in a written report, when total_reads is 0 every row of a search tag
\* or of a discovered value shows the character '0' as its fraction, with no
\* division by total_reads; when total_reads > 0 every such row shows its count
\* divided by total_reads.  There is one row per search tag in either case.
C14_FractionOfRows ==
    report.written =>
        /\ { [id |-> row.id, count |-> row.count] : row \in report.rows }
             = { [id |-> k.id, count |-> stats.counts[k]] : k \in DOMAIN stats.counts }
        /\ \A row \in ReportRows :
              IF stats.total_reads = 0
              THEN row.fraction.zero /\ row.fraction.den # 0
              ELSE /\ ~row.fraction.zero
                   /\ row.fraction.num = row.count
                   /\ row.fraction.den = stats.total_reads

\* C14 witness: two records were read and both rejected, so the report was
\* written with total_reads = 0 and a row for each of two search tags.
C14_Witness ==
    /\ report.written /\ report.total = 0
    /\ Len(seen) = 2
    /\ Cardinality(report.rows) = 2
    /\ \A row \in report.rows : row.fraction.zero

\* the orders in which the conditions cs can be evaluated
Orders(cs) ==
    { [i \in 1..Len(cs) |-> cs[p[i]]] :
        p \in { q \in [1..Len(cs) -> 1..Len(cs)] : \A i, j \in 1..Len(cs) : q[i] = q[j] => i = j } }

\* C15: the filter built from the options admits a record exactly when every
\* supplied condition holds (all bits of the required mask set, no bit of the
\* excluded mask set, quality at least the threshold), so with no condition
\* every record is admitted; evaluating the conditions in any other order gives
\* the same answer; and the record just read was counted exactly when the
\* conditions admit it, a rejected one leaving the statistics as they were.
\* (Stated for the record the loop has just applied the filter to.)
C15_AdmissionPredicate ==
    seen # <<>> =>
        /\ read_filter(options, last.rec) <=> Admitted(options, last.rec)
        /\ \A cs \in Orders(Conditions(options)) :
              AllOf(cs, last.rec) <=> read_filter(options, last.rec)
        /\ Conditions(options) = <<>> => read_filter(options, last.rec)
        /\ IF Admitted(options, last.rec)
           THEN stats.total_reads = last.before.total_reads + 1
           ELSE stats = last.before

\* C15 witness: with -f 3, -F 12 and -q 30 all given, a record with flags 3 and
\* quality 30 (equal to the threshold) was admitted, and then a record with
\* flags 5 (one required bit missing, one excluded bit set) and quality 10 was
\* rejected.
C15_Witness ==
    /\ Len(Conditions(options)) = 3
    /\ Len(seen) = 2
    /\ seen[1].flag = 3 /\ seen[1].qual = 30
    /\ seen[2].flag = 5 /\ seen[2].qual = 10
    /\ stats.total_reads = 1
    /\ stats = last.before

\* C17: whatever the search specs are (several may share a tag identifier),
\* every count of the un-specialized map and every count of the
\* value-specialized map is at most total_reads, so every fraction that is
\* reported is at most 1.
C17_CountsAtMostTotal ==
    /\ \A k \in DOMAIN stats.counts : stats.counts[k] <= stats.total_reads
    /\ stats.value_counts.has =>
          \A vk \in DOMAIN stats.value_counts.v :
              stats.value_counts.v[vk] <= stats.total_reads
    /\ report.written =>
          \A row \in ReportRows : row.fraction.num <= row.fraction.den

\* the same for the un-specialized map alone
CountsAtMostTotal ==
    \A k \in DOMAIN stats.counts : stats.counts[k] <= stats.total_reads

\* C17 witness: with --split and the specs CB and CB:^A, one record with
\* CB:Z:AG was counted; the entry (CB, AG) stands at 2 with total_reads = 1,
\* and the report shows it with the fraction 2/1.
C17_Witness ==
    /\ report.written /\ options.split
    /\ DOMAIN stats.counts = {[id |-> CB, value |-> None],
                              [id |-> CB, value |-> Some(<<"^", "A">>)]}
    /\ stats.total_reads = 1
    /\ stats.value_counts.v = [vk \in {ValueEntry(CB, <<"A", "G">>)} |-> 2]
    /\ \E row \in report.value_rows : row.fraction.num = 2 /\ row.fraction.den = 1

====
